---- MODULE Spec2Model ----
(***************************************************************************)
(* Model of mfr3dcore/models/analytical/base.py: the Euler-Rodrigues       *)
(* rotation algebra (er_get, er_compose, er_rot) and the base class        *)
(* AnalyticalFluxRopeModel built on it.                                    *)
(*                                                                         *)
(* Arithmetic is exact.  Every quantity the code computes for angles that  *)
(* are multiples of 90 degrees lies in the ring Z[sqrt 2][1/2]; a number   *)
(* is the triple <<a, b, e>> standing for (a + b*sqrt(2)) / 2^e, kept in   *)
(* lowest terms so that equal numbers are equal triples.  Floating-point   *)
(* rounding is not modelled.                                               *)
(***************************************************************************)
EXTENDS Integers, Sequences, FiniteSets, TLC

VARIABLES
    phase,          \* "none" | "constructed" | "failed" (ValueError raised)
    argF, argF0,    \* the f and f0 arguments the constructor was called with
    t0, tt,         \* self.t0, self.tt
    lon, lat, inc,  \* self.lon, self.lat, self.inc (degrees)
    g, jac, h,      \* self.g, self.jac, self.h (capabilities)
    f, f_appr,      \* self.f, self.f_appr
    state,          \* self.state
    er_coeff_from,  \* self.er_coeff_from
    er_coeff_into,  \* self.er_coeff_into
    op, arg, coll,  \* the last call: its name, its argument, its predicate
    result,         \* what the last call returned or raised
    era, erb, vec,  \* inputs of the rotation-algebra evaluation
    rotOfComposed,  \* er_rot(vec, er_compose(era, erb))
    rotAThenB,      \* er_rot(er_rot(vec, era), erb)
    rotBThenA       \* er_rot(er_rot(vec, erb), era)

modelVars == <<t0, tt, lon, lat, inc, g, jac, h, f, f_appr, state,
               er_coeff_from, er_coeff_into>>
callVars == <<op, arg, coll, result>>
algebraVars == <<era, erb, vec, rotOfComposed, rotAThenB, rotBThenA>>
vars == <<phase, argF, argF0, modelVars, callVars, algebraVars>>

(***************************************************************************)
(* Bounds of the model.                                                    *)
(***************************************************************************)
\* longest batch handed to transform_into / transform_from / magnetic_field
MaxBatch == 2
\* rotation coefficients of the algebra check range over -QMax..QMax
QMax == 1

(***************************************************************************)
(* Exact numbers (a + b*sqrt 2) / 2^e.                                     *)
(***************************************************************************)
RECURSIVE Norm(_, _, _)
Norm(a, b, e) ==
    IF e > 0 /\ a % 2 = 0 /\ b % 2 = 0
    THEN Norm(a \div 2, b \div 2, e - 1)
    ELSE <<a, b, e>>

RECURSIVE Pow2(_)
Pow2(e) == IF e = 0 THEN 1 ELSE 2 * Pow2(e - 1)

Num(n) == <<n, 0, 0>>

Zero == Num(0)

One == Num(1)

\* sqrt(2)/2 = cos(45 deg) = sin(45 deg)
HalfSqrt2 == <<0, 1, 1>>

Neg(x) == <<-x[1], -x[2], x[3]>>

Add(x, y) ==
    IF x[3] = 0 /\ y[3] = 0 THEN <<x[1] + y[1], x[2] + y[2], 0>>
    ELSE LET e == IF x[3] > y[3] THEN x[3] ELSE y[3]
             sx == Pow2(e - x[3])
             sy == Pow2(e - y[3])
         IN  Norm(x[1] * sx + y[1] * sy, x[2] * sx + y[2] * sy, e)

Sub(x, y) == Add(x, Neg(y))

Mul(x, y) ==
    IF x[2] = 0 /\ y[2] = 0 /\ x[3] = 0 /\ y[3] = 0 THEN <<x[1] * y[1], 0, 0>>
    ELSE Norm(x[1] * y[1] + 2 * x[2] * y[2], x[1] * y[2] + x[2] * y[1],
              x[3] + y[3])

Sq(x) == Mul(x, x)

Twice(x) == Mul(Num(2), x)

\* the sign (-1, 0, 1) of a number: the sign of a + b*sqrt 2
Sign(x) ==
    LET a == x[1]
        b == x[2]
    IN  IF a = 0 /\ b = 0 THEN 0
        ELSE IF a >= 0 /\ b >= 0 THEN 1
        ELSE IF a <= 0 /\ b <= 0 THEN -1
        ELSE IF a > 0 THEN (IF a * a > 2 * b * b THEN 1 ELSE -1)
        ELSE (IF 2 * b * b > a * a THEN 1 ELSE -1)

Leq(x, y) ==
    IF x[2] = 0 /\ y[2] = 0 /\ x[3] = 0 /\ y[3] = 0 THEN x[1] <= y[1]
    ELSE Sign(Sub(x, y)) <= 0

(***************************************************************************)
(* Rotation algebra.                                                       *)
(***************************************************************************)
\* cos and sin of k * 45 degrees
Cos45(k) ==
    LET r == k % 8
    IN  CASE r = 0 -> One
          [] r = 1 -> HalfSqrt2
          [] r = 2 -> Zero
          [] r = 3 -> Neg(HalfSqrt2)
          [] r = 4 -> Neg(One)
          [] r = 5 -> Neg(HalfSqrt2)
          [] r = 6 -> Zero
          [] r = 7 -> HalfSqrt2

Sin45(k) == Cos45(k - 2)

\* np.radians(a / 2) for a whole multiple a of 90 degrees, in units of 45 degrees
HalfAngle(a) == a \div 90

er_composeSwapped(er1, er2) ==
    LET p == er2
        q == er1
    IN  << Sub(Sub(Sub(Mul(p[1], q[1]), Mul(p[2], q[2])), Mul(p[3], q[3])), Mul(p[4], q[4])),
           Add(Sub(Add(Mul(p[1], q[2]), Mul(p[2], q[1])), Mul(p[3], q[4])), Mul(p[4], q[3])),
           Add(Sub(Add(Mul(p[1], q[3]), Mul(p[3], q[1])), Mul(p[4], q[2])), Mul(p[2], q[4])),
           Add(Sub(Add(Mul(p[1], q[4]), Mul(p[4], q[1])), Mul(p[2], q[3])), Mul(p[3], q[2])) >>

er_compose(er1, er2) ==
    LET era_ == Sub(Sub(Sub(Mul(er1[1], er2[1]), Mul(er1[2], er2[2])),
                        Mul(er1[3], er2[3])), Mul(er1[4], er2[4]))
        erb_ == Add(Sub(Add(Mul(er1[1], er2[2]), Mul(er1[2], er2[1])),
                        Mul(er1[3], er2[4])), Mul(er1[4], er2[3]))
        erc_ == Add(Sub(Add(Mul(er1[1], er2[3]), Mul(er1[3], er2[1])),
                        Mul(er1[4], er2[2])), Mul(er1[2], er2[4]))
        erd_ == Add(Sub(Add(Mul(er1[1], er2[4]), Mul(er1[4], er2[1])),
                        Mul(er1[2], er2[3])), Mul(er1[3], er2[2]))
    IN  <<era_, erb_, erc_, erd_>>

er_get(a, v) ==
    LET k == HalfAngle(a)
    IN  << Cos45(k), Mul(v[1], Sin45(k)), Mul(v[2], Sin45(k)), Mul(v[3], Sin45(k)) >>

\* np.dot(m, v) for a 3x3 matrix m (a triple of rows) and a 3-vector v
Dot3(m, v) ==
    [i \in 1..3 |->
        Add(Add(Mul(m[i][1], v[1]), Mul(m[i][2], v[2])), Mul(m[i][3], v[3]))]

er_rot(v, er) ==
    LET m == <<
            << Sub(Sub(Add(Sq(er[1]), Sq(er[2])), Sq(er[3])), Sq(er[4])),
               Twice(Sub(Mul(er[2], er[3]), Mul(er[1], er[4]))),
               Twice(Add(Mul(er[2], er[4]), Mul(er[1], er[3]))) >>,
            << Twice(Add(Mul(er[2], er[3]), Mul(er[1], er[4]))),
               Sub(Sub(Add(Sq(er[1]), Sq(er[3])), Sq(er[2])), Sq(er[4])),
               Twice(Sub(Mul(er[3], er[4]), Mul(er[1], er[2]))) >>,
            << Twice(Sub(Mul(er[2], er[4]), Mul(er[1], er[3]))),
               Twice(Add(Mul(er[3], er[4]), Mul(er[1], er[2]))),
               Sub(Sub(Add(Sq(er[1]), Sq(er[4])), Sq(er[2])), Sq(er[3])) >> >>
    IN  Dot3(m, v)

(***************************************************************************)
(* Values.  An array is [nd |-> number of dimensions, d |-> its data]: a   *)
(* point is [nd |-> 1, d |-> <<x, y, z>>]; a batch (a list of points, or   *)
(* an ndarray with ndim > 1) is [nd |-> 2, d |-> <<p1, ..., pn>>].  A      *)
(* boolean result is [nd |-> 0, d |-> <<b>>] for one bool and              *)
(* [nd |-> 1, d |-> <<b1, ..., bn>>] for an array of bools.                *)
(***************************************************************************)
None == "None"

\* er_coeff_from, er_coeff_into = None, None
NoCoefficients == <<>>

NoArray == [nd |-> 0, d |-> <<>>]

NoFlag == [nd |-> 0, d |-> <<>>]

Point(p) == [nd |-> 1, d |-> p]

Batch(ps) == [nd |-> 2, d |-> ps]

Bool(b) == [nd |-> 0, d |-> <<b>>]

IsPoint(a) == a.nd = 1 /\ Len(a.d) = 3

\* isinstance(x, list) or (isinstance(x, np.ndarray) and x.ndim > 1)
IsBatch(x) == x.nd > 1

\* np.array(list of arrays): an empty list gives the 1-d array of shape (0,)
NpArray(items) ==
    IF Len(items) = 0 THEN [nd |-> 1, d |-> <<>>]
    ELSE [nd |-> 2, d |-> [i \in 1..Len(items) |-> items[i].d]]

ZeroVector == Point(<<Zero, Zero, Zero>>)

RECURSIVE SumSeq(_)
SumSeq(s) == IF Len(s) = 0 THEN Zero ELSE Add(Head(s), SumSeq(Tail(s)))

NormSq(p) == Add(Add(Sq(p[1]), Sq(p[2])), Sq(p[3]))

(***************************************************************************)
(* The capabilities a caller hands to the constructor.  Each takes the     *)
(* state tuple as trailing positional arguments.                           *)
(*   g "shift":  q |-> q + (1 + sum(state), 0, 0)   f "unshift" its inverse*)
(*   g "swap":   q |-> (q2, q3, q1)                 f "unswap" its inverse *)
(*   f0 "guess": x |-> x                                                   *)
(*   h "radial": q |-> q, element-wise on a batch                          *)
(*   collision "never": always False;  "inside": q1 >= 0, element-wise     *)
(***************************************************************************)
GKinds == {"shift", "swap"}

FKinds == {"unshift", "unswap"}

F0Kinds == {"guess"}

HKinds == {"radial"}

JacKinds == {"jac"}

CollisionKinds == {"never", "inside"}

g_call(gk, q, s) ==
    CASE gk = "shift" -> <<Add(q[1], Add(One, SumSeq(s))), q[2], q[3]>>
      [] gk = "swap" -> <<q[2], q[3], q[1]>>

analytic_f_call(fk, x, s) ==
    CASE fk = "unshift" -> <<Sub(x[1], Add(One, SumSeq(s))), x[2], x[3]>>
      [] fk = "unswap" -> <<x[3], x[1], x[2]>>

f0_call(f0k, x, s) == x

\* h on one point or, vectorised, on a batch
h_call(hk, q, s) == q

\* collision on one point or, vectorised, on a batch
collision_call(ck, q, s) ==
    CASE ck = "never" -> [err |-> "none", val |-> Bool(FALSE)]
      [] ck = "inside" ->
            IF IsPoint(q)
            THEN [err |-> "none", val |-> Bool(Sign(q.d[1]) >= 0)]
            ELSE IF q.nd = 2
            THEN [err |-> "none",
                  val |-> [nd |-> 1,
                           d |-> [i \in 1..Len(q.d) |-> Sign(q.d[i][1]) >= 0]]]
            ELSE [err |-> "IndexError", val |-> NoFlag]

\* `if value:`; an array of more than one element has no truth value
Truth(c) ==
    IF c.err # "none" THEN [err |-> c.err, t |-> FALSE]
    ELSE IF Len(c.val.d) = 1 THEN [err |-> "none", t |-> c.val.d[1]]
    ELSE [err |-> "ValueError", t |-> FALSE]

(***************************************************************************)
(* scipy.optimize.least_squares(fun, x0).x: a minimiser of |fun(q)|^2,     *)
(* searched from x0.  The candidates are x0 and the integer points of the  *)
(* cube around the origin; every g above has exactly one root there.       *)
(***************************************************************************)
SolverGrid == {<<Num(a), Num(b), Num(c)>> : a, b, c \in -1..1}

least_squares(gk, x0) ==
    LET cand == SolverGrid \cup {x0}
        cost == [q \in cand |-> NormSq(g_call(gk, q, <<>>))]
        costs == { cost[q] : q \in cand }
        least == CHOOSE c \in costs : \A d \in costs : Leq(c, d)
    IN  CHOOSE q \in cand : cost[q] = least

\* self.f: the analytic f, or the lambda of __init__ built on f_appr
f_call(x, s) ==
    IF f = "lambda" THEN least_squares(g, f0_call(f_appr, x, s))
    ELSE analytic_f_call(f, x, s)

(***************************************************************************)
(* AnalyticalFluxRopeModel: the methods as operators on the instance's     *)
(* fields.                                                                 *)
(***************************************************************************)
UnitX == <<One, Zero, Zero>>

UnitY == <<Zero, One, Zero>>

UnitZ == <<Zero, Zero, One>>

update_er_coefficientsNoConjugate(lo, la, in) ==
    LET c1 == er_get(lo, UnitZ)
        c2 == er_get(-la, er_rot(UnitY, c1))
        c3 == er_get(in, er_rot(UnitX, er_compose(c1, c2)))
        from == er_compose(er_compose(c1, c2), c3)
    IN  [from |-> from, into |-> from]

update_er_coefficientsPlusLatitude(lo, la, in) ==
    LET c1 == er_get(lo, UnitZ)
        c2 == er_get(la, er_rot(UnitY, c1))
        c3 == er_get(in, er_rot(UnitX, er_compose(c1, c2)))
        from == er_compose(er_compose(c1, c2), c3)
    IN  [from |-> from,
         into |-> <<from[1], Neg(from[2]), Neg(from[3]), Neg(from[4])>>]

\* the coefficients update_er_coefficients derives from the three angles
update_er_coefficients(lo, la, in) ==
    LET c1 == er_get(lo, UnitZ)
        c2 == er_get(-la, er_rot(UnitY, c1))
        c3 == er_get(in, er_rot(UnitX, er_compose(c1, c2)))
        from == er_compose(er_compose(c1, c2), c3)
    IN  [from |-> from,
         into |-> <<from[1], Neg(from[2]), Neg(from[3]), Neg(from[4])>>]

\* the batch collected back to front
transform_intoReversed(x) ==
    IF IsBatch(x)
    THEN NpArray([i \in 1..Len(x.d) |->
                    Point(f_call(er_rot(x.d[Len(x.d) + 1 - i], er_coeff_into), state))])
    ELSE Point(f_call(er_rot(x.d, er_coeff_into), state))

RECURSIVE transform_into(_)
transform_into(x) ==
    IF IsBatch(x)
    THEN NpArray([i \in 1..Len(x.d) |-> transform_into(Point(x.d[i]))])
    ELSE Point(f_call(er_rot(x.d, er_coeff_into), state))

RECURSIVE transform_from(_)
transform_from(q) ==
    IF IsBatch(q)
    THEN NpArray([i \in 1..Len(q.d) |-> transform_from(Point(q.d[i]))])
    ELSE Point(er_rot(g_call(g, q.d, state), er_coeff_from))

\* er_rot as called from magnetic_field: it is compiled for 1-d arrays only,
\* and np.dot needs three components
rotated_field(hv) ==
    IF IsPoint(hv)
    THEN [err |-> "none", out |-> Point(er_rot(hv.d, er_coeff_from))]
    ELSE [err |-> IF hv.nd > 1 THEN "TypeError" ELSE "ValueError", out |-> NoArray]

\* h evaluated before the predicate is looked at
magnetic_fieldEvaluatesFirst(x, collision) ==
    LET v == transform_into(x)
        b == rotated_field(h_call(h, v, state))
        inside == [err |-> b.err, out |-> b.out,
                   flag |-> IF b.err = "none" THEN Bool(TRUE) ELSE NoFlag,
                   hEvals |-> <<v>>]
        outside == [err |-> "none", out |-> ZeroVector, flag |-> Bool(FALSE),
                    hEvals |-> <<v>>]
    IN  IF collision # None
        THEN LET t == Truth(collision_call(collision, v, state))
             IN  IF t.err # "none"
                 THEN [err |-> t.err, out |-> NoArray, flag |-> NoFlag,
                       hEvals |-> <<v>>]
                 ELSE IF t.t THEN inside ELSE outside
        ELSE inside

\* a batch dispatched point by point, as transform_into does
magnetic_fieldPerPoint(x, collision) ==
    LET one(p) ==
            LET v == transform_into(Point(p))
                in == \/ collision = None
                      \/ collision_call(collision, v, state).val.d[1]
            IN  [out |-> IF in THEN er_rot(h_call(h, v, state).d, er_coeff_from)
                         ELSE ZeroVector.d,
                 flag |-> in,
                 hEvals |-> IF in THEN <<v>> ELSE <<>>]
    IN  IF IsBatch(x)
        THEN [err |-> "none",
              out |-> [nd |-> 2, d |-> [i \in 1..Len(x.d) |-> one(x.d[i]).out]],
              flag |-> [nd |-> 1, d |-> [i \in 1..Len(x.d) |-> one(x.d[i]).flag]],
              hEvals |-> <<>>]
        ELSE [err |-> "none", out |-> Point(one(x.d).out),
              flag |-> Bool(one(x.d).flag), hEvals |-> one(x.d).hEvals]

\* [err, out, flag, hEvals]: what magnetic_field raises or returns, and the
\* arguments h was evaluated at
magnetic_field(x, collision) ==
    LET v == transform_into(x)
        b == rotated_field(h_call(h, v, state))
        inside == [err |-> b.err, out |-> b.out,
                   flag |-> IF b.err = "none" THEN Bool(TRUE) ELSE NoFlag,
                   hEvals |-> <<v>>]
        outside == [err |-> "none", out |-> ZeroVector, flag |-> Bool(FALSE),
                    hEvals |-> <<>>]
    IN  IF collision # None
        THEN LET t == Truth(collision_call(collision, v, state))
             IN  IF t.err # "none"
                 THEN [err |-> t.err, out |-> NoArray, flag |-> NoFlag,
                       hEvals |-> <<>>]
                 ELSE IF t.t THEN inside ELSE outside
        ELSE inside

(***************************************************************************)
(* Inputs.                                                                 *)
(***************************************************************************)
Longitudes == {0, 90}

Latitudes == {0, 90}

Inclinations == {0, 180}

Times == {0, 1}

\* the batches: every run of up to MaxBatch points of the cycle p1, p2, p1, ...
PointCycle(i) ==
    IF i % 2 = 1 THEN <<Num(1), Num(0), Num(0)>> ELSE <<Num(-1), Num(2), Num(3)>>

Points == { PointCycle(1), PointCycle(2) }

Batches == { [i \in 1..n |-> PointCycle(k + i)] : n \in 0..MaxBatch, k \in 0..1 }

Inputs == { Point(p) : p \in Points } \cup { Batch(b) : b \in Batches }

Returned(a) == [err |-> "none", out |-> a, flag |-> NoFlag, hEvals |-> <<>>]

Raised(e) == [err |-> e, out |-> NoArray, flag |-> NoFlag, hEvals |-> <<>>]

(***************************************************************************)
(* Actions: one per constructor or method call.                            *)
(***************************************************************************)
\* __init__ with the test `rejects` deciding the ValueError
init(time, longitude, latitude, inclination, gk, jk, hk, fk, f0k, rejects) ==
    /\ phase = "none"
    /\ argF' = fk
    /\ argF0' = f0k
    /\ t0' = time
    /\ tt' = time
    /\ lon' = longitude
    /\ lat' = latitude
    /\ inc' = inclination
    /\ g' = gk
    /\ jac' = jk
    /\ h' = hk
    /\ op' = "__init__"
    /\ UNCHANGED <<state, arg, coll, algebraVars>>
    /\ IF rejects
       THEN /\ phase' = "failed"
            /\ result' = Raised("ValueError")
            /\ UNCHANGED <<f, f_appr, er_coeff_from, er_coeff_into>>
       ELSE /\ phase' = "constructed"
            /\ result' = Returned(NoArray)
            /\ f' = IF fk # None THEN fk ELSE "lambda"
            /\ f_appr' = IF fk # None THEN None ELSE f0k
            /\ er_coeff_from' = update_er_coefficients(longitude, latitude, inclination).from
            /\ er_coeff_into' = update_er_coefficients(longitude, latitude, inclination).into

ConstructRejectingBoth ==
    \E time \in {0}, longitude \in Longitudes, latitude \in Latitudes,
       inclination \in Inclinations, gk \in GKinds, jk \in JacKinds,
       hk \in HKinds, fk \in FKinds \cup {None}, f0k \in F0Kinds \cup {None} :
        init(time, longitude, latitude, inclination, gk, jk, hk, fk, f0k,
             (fk = None) = (f0k = None))

ConstructRejectingMissingF ==
    \E time \in {0}, longitude \in Longitudes, latitude \in Latitudes,
       inclination \in Inclinations, gk \in GKinds, jk \in JacKinds,
       hk \in HKinds, fk \in FKinds \cup {None}, f0k \in F0Kinds \cup {None} :
        init(time, longitude, latitude, inclination, gk, jk, hk, fk, f0k,
             fk = None)

Construct ==
    \E time \in {0}, longitude \in Longitudes, latitude \in Latitudes,
       inclination \in Inclinations, gk \in GKinds, jk \in JacKinds,
       hk \in HKinds, fk \in FKinds \cup {None}, f0k \in F0Kinds \cup {None} :
        init(time, longitude, latitude, inclination, gk, jk, hk, fk, f0k,
             fk = None /\ f0k = None)

\* propagate implemented: it moves the model to the given time
PropagateImplemented ==
    /\ phase = "constructed"
    /\ \E time \in Times :
        /\ op' = "propagate"
        /\ arg' = time
        /\ coll' = None
        /\ tt' = time
        /\ state' = <<Num(time)>>
        /\ result' = Returned(NoArray)
    /\ UNCHANGED <<phase, argF, argF0, t0, lon, lat, inc, g, jac, h, f, f_appr,
                   er_coeff_from, er_coeff_into, algebraVars>>

Propagate ==
    /\ phase = "constructed"
    /\ \E time \in Times :
        /\ op' = "propagate"
        /\ arg' = time
        /\ coll' = None
        /\ result' = Raised("NotImplementedError")
    /\ UNCHANGED <<phase, argF, argF0, modelVars, algebraVars>>

MagneticField ==
    /\ phase = "constructed"
    /\ \E v \in Inputs, collision \in CollisionKinds \cup {None} :
        /\ op' = "magnetic_field"
        /\ arg' = v
        /\ coll' = collision
        /\ result' = magnetic_field(v, collision)
    /\ UNCHANGED <<phase, argF, argF0, modelVars, algebraVars>>

TransformInto ==
    /\ phase = "constructed"
    /\ \E x \in Inputs :
        /\ op' = "transform_into"
        /\ arg' = x
        /\ coll' = None
        /\ result' = Returned(transform_into(x))
    /\ UNCHANGED <<phase, argF, argF0, modelVars, algebraVars>>

TransformFrom ==
    /\ phase = "constructed"
    /\ \E q \in Inputs :
        /\ op' = "transform_from"
        /\ arg' = q
        /\ coll' = None
        /\ result' = Returned(transform_from(q))
    /\ UNCHANGED <<phase, argF, argF0, modelVars, algebraVars>>

UpdateErCoefficients ==
    /\ phase = "constructed"
    /\ er_coeff_from' = update_er_coefficients(lon, lat, inc).from
    /\ er_coeff_into' = update_er_coefficients(lon, lat, inc).into
    /\ op' = "update_er_coefficients"
    /\ arg' = None
    /\ coll' = None
    /\ result' = Returned(NoArray)
    /\ UNCHANGED <<phase, argF, argF0, t0, tt, lon, lat, inc, g, jac, h, f,
                   f_appr, state, algebraVars>>

UpdateStateParameters ==
    /\ phase = "constructed"
    /\ op' = "update_state_parameters"
    /\ arg' = None
    /\ coll' = None
    /\ result' = Raised("NotImplementedError")
    /\ UNCHANGED <<phase, argF, argF0, modelVars, algebraVars>>

\* the class attributes before __init__ runs
ClassDefaults ==
    /\ phase = "none"
    /\ argF = None
    /\ argF0 = None
    /\ t0 = None
    /\ tt = None
    /\ lon = None
    /\ lat = None
    /\ inc = None
    /\ g = None
    /\ jac = None
    /\ h = None
    /\ f = None
    /\ f_appr = None
    /\ er_coeff_from = NoCoefficients
    /\ er_coeff_into = NoCoefficients
    /\ op = None
    /\ arg = None
    /\ coll = None
    /\ result = Returned(NoArray)

NoAlgebra ==
    /\ era = <<>>
    /\ erb = <<>>
    /\ vec = <<>>
    /\ rotOfComposed = <<>>
    /\ rotAThenB = <<>>
    /\ rotBThenA = <<>>

Init ==
    /\ ClassDefaults
    /\ state = <<>>
    /\ NoAlgebra

Next ==
    \/ Construct
    \/ Propagate
    \/ MagneticField
    \/ TransformInto
    \/ TransformFrom
    \/ UpdateErCoefficients
    \/ UpdateStateParameters

Spec == Init /\ [][Next]_vars

(***************************************************************************)
(* The same model with the state tuple a concrete variant has stored in    *)
(* self.state; the base class never writes it.                             *)
(***************************************************************************)
StateTuples == { <<>>, <<Num(2)>> }

InitAnyState ==
    /\ ClassDefaults
    /\ state \in StateTuples
    /\ NoAlgebra

SpecAnyState == InitAnyState /\ [][Next]_vars

(***************************************************************************)
(* The rotation algebra on its own: coefficient tuples and a vector are    *)
(* drawn, then composed and applied.                                       *)
(***************************************************************************)
CoefficientsA == { <<Num(a), Num(b), Num(c), Num(d)>> : a, b, c, d \in -QMax..QMax }

CoefficientsB ==
    { <<Zero, One, Zero, Zero>>,
      <<HalfSqrt2, HalfSqrt2, Zero, Zero>>,
      <<HalfSqrt2, Zero, Zero, Neg(HalfSqrt2)>>,
      <<<<1, 0, 1>>, <<1, 0, 1>>, <<1, 0, 1>>, <<1, 0, 1>>>>,
      <<One, One, Zero, Zero>>,
      <<One, Num(2), Num(-1), Zero>> }

Vectors == { UnitX, UnitY, <<Num(1), Num(2), Num(3)>> }

InitAlgebra ==
    /\ ClassDefaults
    /\ state = <<>>
    /\ era \in CoefficientsA
    /\ erb \in CoefficientsB
    /\ vec \in Vectors
    /\ rotOfComposed = <<>>
    /\ rotAThenB = <<>>
    /\ rotBThenA = <<>>

ApplyRotations ==
    /\ rotOfComposed = <<>>
    /\ rotOfComposed' = er_rot(vec, er_compose(era, erb))
    /\ rotAThenB' = er_rot(er_rot(vec, era), erb)
    /\ rotBThenA' = er_rot(er_rot(vec, erb), era)
    /\ UNCHANGED <<phase, argF, argF0, modelVars, callVars, era, erb, vec>>

NextAlgebra == ApplyRotations

SpecAlgebra == InitAlgebra /\ [][NextAlgebra]_vars

(***************************************************************************)
(* Properties.                                                             *)
(***************************************************************************)
\* the single-point transforms, written out from their parts
IntoPoint(p) == f_call(er_rot(p, er_coeff_into), state)

FromPoint(p) == er_rot(g_call(g, p, state), er_coeff_from)

\* C1: for one query point p with q = transform_into(p), magnetic_field
\* returns the flag true exactly when no predicate is given or
\* collision(q, state) is true; with a true flag the vector is
\* er_rot(h(q, state), forward coefficients) and h was evaluated at q; with a
\* false flag the vector is the zero vector and h was not evaluated.
C1_FieldAtPoint ==
    (op = "magnetic_field" /\ IsPoint(arg)) =>
        LET q == Point(IntoPoint(arg.d))
            inside == \/ coll = None
                      \/ collision_call(coll, q, state).val.d[1]
        IN  /\ result.err = "none"
            /\ result.flag = Bool(inside)
            /\ inside =>
                /\ result.out = Point(er_rot(h_call(h, q, state).d, er_coeff_from))
                /\ result.hEvals = <<q>>
            /\ ~inside =>
                /\ result.out = ZeroVector
                /\ result.hEvals = <<>>

C1_Witness ==
    /\ op = "magnetic_field"
    /\ IsPoint(arg)
    /\ coll = "inside"
    /\ Sign(IntoPoint(arg.d)[1]) < 0
    /\ result.flag = Bool(FALSE)
    /\ result.out = ZeroVector
    /\ result.hEvals = <<>>

\* whether self.f and self.g are inverse to each other under the current state
ProbePoints == SolverGrid \cup Points

InversePair ==
    /\ f \in FKinds
    /\ \A p \in ProbePoints :
        /\ analytic_f_call(f, g_call(g, p, state), state) = p
        /\ g_call(g, analytic_f_call(f, p, state), state) = p

\* C2: with an analytic f that is the inverse of g, for every orientation and
\* state, transform_from(transform_into(x)) = x for an inertial point x.
C2_RoundTrip ==
    (op = "transform_into" /\ IsPoint(arg) /\ InversePair) =>
        transform_from(result.out) = arg

C2_Witness ==
    /\ op = "transform_into"
    /\ IsPoint(arg)
    /\ InversePair
    /\ state # <<>>
    /\ lon = 90
    /\ lat = 90
    /\ inc = 180
    /\ result.out # arg
    /\ transform_from(result.out) = arg

\* C3: the constructor raises ValueError exactly when both f and f0 are
\* omitted; when it returns, the coefficients are the ones derived from the
\* angles; when it raises, there is no instance: no coefficients were set and
\* no method has run.
C3_Construction ==
    (phase # "none") =>
        /\ (phase = "failed") <=> (argF = None /\ argF0 = None)
        /\ (phase = "failed") =>
            /\ op = "__init__"
            /\ result.err = "ValueError"
            /\ er_coeff_from = NoCoefficients
            /\ er_coeff_into = NoCoefficients
        /\ (phase = "constructed" /\ op = "__init__") =>
            /\ result.err = "none"
            /\ Len(er_coeff_from) = 4
            /\ Len(er_coeff_into) = 4
            /\ er_coeff_from =
                 er_compose(
                   er_compose(er_get(lon, UnitZ),
                              er_get(-lat, er_rot(UnitY, er_get(lon, UnitZ)))),
                   er_get(inc,
                          er_rot(UnitX,
                                 er_compose(er_get(lon, UnitZ),
                                            er_get(-lat, er_rot(UnitY, er_get(lon, UnitZ)))))))

C3_Witness ==
    /\ phase = "failed"
    /\ argF = None
    /\ argF0 = None
    /\ result.err = "ValueError"

\* C4 as stated: construction succeeds exactly when exactly one of f and f0
\* is supplied; it fails when neither is and when both are.
C4_ExactlyOne ==
    (phase # "none") =>
        ((phase = "constructed") <=> ((argF = None) # (argF0 = None)))

\* C4 amended: construction fails only when neither f nor f0 is supplied;
\* with both supplied it succeeds, f is used and f0 is ignored.
C4_AtLeastOne ==
    (phase # "none") =>
        /\ (argF # None \/ argF0 # None) => phase = "constructed"
        /\ (argF # None /\ argF0 # None) => (f = argF /\ f_appr = None)
        /\ (argF = None /\ argF0 = None) => phase = "failed"

C4_Witness ==
    /\ phase = "constructed"
    /\ argF # None
    /\ argF0 # None
    /\ f = argF
    /\ f_appr = None

\* C5: built from f0 alone, the inverse returns a q with g(q, state) = x for
\* the local-cartesian target x (every g here attains every x), so that
\* transform_from(transform_into(p)) = p.
C5_NumericalInverse ==
    (op = "transform_into" /\ IsPoint(arg) /\ f = "lambda") =>
        /\ g_call(g, result.out.d, state) = er_rot(arg.d, er_coeff_into)
        /\ transform_from(result.out) = arg

\* C6: transform_into and transform_from of a batch return a batch of the
\* same length whose i-th element is the single-point transform of the i-th
\* point.
C6_BatchElementwise ==
    (op \in {"transform_into", "transform_from"} /\ IsBatch(arg)) =>
        /\ result.err = "none"
        /\ Len(result.out.d) = Len(arg.d)
        /\ \A i \in 1..Len(arg.d) :
            result.out.d[i] = IF op = "transform_into" THEN IntoPoint(arg.d[i])
                              ELSE FromPoint(arg.d[i])

C6_Witness ==
    /\ op = "transform_into"
    /\ IsBatch(arg)
    /\ Len(arg.d) = MaxBatch
    /\ Len(result.out.d) = MaxBatch
    /\ result.out.d[1] # result.out.d[2]
    /\ result.out.d[1] = IntoPoint(arg.d[1])
    /\ result.out.d[2] = IntoPoint(arg.d[2])

\* the pair magnetic_field gives for the point p alone
FieldAtPoint(p) ==
    LET q == Point(IntoPoint(p))
        inside == \/ coll = None
                  \/ collision_call(coll, q, state).val.d[1]
    IN  [out |-> IF inside THEN er_rot(h_call(h, q, state).d, er_coeff_from)
                 ELSE ZeroVector.d,
         flag |-> inside]

\* C7 as stated: for a batch of n points magnetic_field returns n vectors and
\* n flags, the i-th pair being the result for the i-th point alone.
C7_BatchField ==
    (op = "magnetic_field" /\ IsBatch(arg)) =>
        /\ result.err = "none"
        /\ result.flag.nd = 1
        /\ Len(result.flag.d) = Len(arg.d)
        /\ Len(result.out.d) = Len(arg.d)
        /\ \A i \in 1..Len(arg.d) :
            /\ result.flag.d[i] = FieldAtPoint(arg.d[i]).flag
            /\ result.out.d[i] = FieldAtPoint(arg.d[i]).out

\* C7 amended: magnetic_field gives the per-point result for a single point
\* only; for a batch it hands the whole transformed batch to the predicate
\* and to h once, and either raises or returns one vector and one flag for
\* the whole call, never a vector and a flag per point.
C7_OneFlagPerCall ==
    (op = "magnetic_field") =>
        /\ IsPoint(arg) =>
            /\ result.err = "none"
            /\ result.flag = Bool(FieldAtPoint(arg.d).flag)
            /\ result.out = Point(FieldAtPoint(arg.d).out)
        /\ IsBatch(arg) =>
            \/ /\ result.err # "none"
               /\ result.out = NoArray
               /\ result.flag = NoFlag
            \/ /\ result.err = "none"
               /\ IsPoint(result.out)
               /\ result.flag.nd = 0
               /\ Len(result.flag.d) = 1

C7_Witness ==
    /\ op = "magnetic_field"
    /\ IsBatch(arg)
    /\ Len(arg.d) = MaxBatch
    /\ coll = "never"
    /\ result.err = "none"
    /\ result.out = ZeroVector
    /\ result.flag = Bool(FALSE)

C9_OrientationInvariant ==
    (phase = "constructed") =>
        LET c1 == er_get(lon, UnitZ)
            c2 == er_get(-lat, er_rot(UnitY, c1))
            c3 == er_get(inc, er_rot(UnitX, er_compose(c1, c2)))
        IN  /\ er_coeff_from = er_compose(er_compose(c1, c2), c3)
            /\ er_coeff_into = << er_coeff_from[1], Neg(er_coeff_from[2]),
                                  Neg(er_coeff_from[3]), Neg(er_coeff_from[4]) >>

C9_Witness ==
    /\ phase = "constructed"
    /\ op = "update_er_coefficients"
    /\ lon = 90
    /\ lat = 90
    /\ inc = 180
    /\ er_coeff_into # er_coeff_from
    /\ er_compose(er_coeff_from, er_coeff_into) = <<One, Zero, Zero, Zero>>

\* C10: on a constructed base model every call other than
\* update_er_coefficients leaves the times, the angles, the capabilities, the
\* state tuple and both coefficient vectors as they were; propagate and
\* update_state_parameters raise NotImplementedError; the model stays
\* constructed with an empty state tuple.
C10_Frame ==
    [][ (phase = "constructed" /\ op' # "update_er_coefficients") =>
            /\ modelVars' = modelVars
            /\ phase' = "constructed"
            /\ state = <<>>
            /\ state' = <<>>
            /\ (op' \in {"propagate", "update_state_parameters"}) =>
                   result'.err = "NotImplementedError"
            /\ (op' \in {"transform_into", "transform_from"}) =>
                   result'.err = "none"
      ]_vars

C10_Witness ==
    /\ phase = "constructed"
    /\ op = "propagate"
    /\ arg = 1
    /\ result.err = "NotImplementedError"
    /\ tt = 0
    /\ state = <<>>

====
